---- MODULE Spec2Model ----
(***************************************************************************)
(* Model of gravwell/ingesters HttpIngester/auth.go: the authentication    *)
(* handlers of the HTTP ingester (cookie sessions, JWT, configuration      *)
(* parsing and validation).                                                *)
(*                                                                         *)
(* Time is counted in units of 24 hours, so that jwtDuration (24*2 hours)  *)
(* is 2.  The wall clock only moves forward.  crypto/rand is taken to be   *)
(* collision free: randBase64 never returns an identifier it returned      *)
(* before.                                                                 *)
(***************************************************************************)
EXTENDS Integers, Sequences, FiniteSets, TLC

VARIABLES
    clock,      \* time.Now()
    cookies,    \* cookieAuthHandler.cookies : map[string]time.Time
    mutex,      \* cookieAuthHandler.Mutex : the caller holding it, or Free
    pc,         \* position of each concurrent caller in Login / AuthRequest
    loc,        \* local variables and results of each caller
    issued,     \* identifiers randBase64 has produced so far
    jar,        \* cookies handed out by http.SetCookie : Value -> Expires
    okLogins,   \* number of Logins that reached http.SetCookie
    expiredRet, \* identifiers for which AuthRequest has set "Session expired"
    jpc,        \* position of the caller of jwtAuthHandler.AuthRequest
    jreq,       \* the Authorization header of the request being checked
    jt,         \* AuthRequest's local t
    jerr,       \* the error AuthRequest returns
    jresp,      \* the response of the last jwtAuthHandler.Login
    jlast,      \* the error of the last bearer request AuthRequest rejected
    ppc,        \* parseAuthType: called or not
    pin,        \* parseAuthType: the argument v
    pout,       \* parseAuthType: the results r, err
    vpc,        \* auth.Validate: called or not
    vcfg,       \* the auth structure Validate is called on
    vout,       \* auth.Validate: the results enabled, err
    vnew,       \* auth.NewAuthHandler: the logger, the entropy source, the results
    hpc,        \* AuthRequest of a stateless handler: called or not
    hnd,        \* the stateless handler AuthRequest is called on
    hreq,       \* the request: its Authorization header and its URL query
    herr,       \* the error AuthRequest returns
    epc,        \* mainService.Execute: its position
    kpc,        \* mainService.consumerRoutine: its position
    consumerErr, \* the channel consumerErr / errC: its buffer of one error
    rChan,      \* the channel r: the change request the service manager offers
    changes,    \* the channel changes: the last status Execute sent
    entCh,      \* m.entCh: the number of entries queued
    igst        \* m.igst: set by init or nil

cvars == <<cookies, mutex, pc, loc, issued, jar, okLogins, expiredRet>>
jvars == <<jpc, jreq, jt, jerr, jresp, jlast>>
pvars == <<ppc, pin, pout>>
vvars == <<vpc, vcfg, vout>>
nvars == <<vnew>>
hvars == <<hpc, hnd, hreq, herr>>
wvars == <<epc, kpc, consumerErr, rChan, changes, entCh, igst>>
vars == <<clock, cvars, jvars, pvars, vvars, hvars, nvars, wvars>>

----------------------------------------------------------------------------
(* Bounds of the model *)
MaxClock == 4
MaxIds == 2

(* Program constants *)
jwtDuration == 2

Procs == {"r1", "r2"}
Free == "free"
(* Cookie values are strings, written as sequences of symbols: the empty   *)
(* string is << >> and the identifiers randBase64 can return are <<1>>,    *)
(* <<2>>, ...                                                              *)
IDs == {<<i>> : i \in 1..MaxIds}
EmptyValue == << >>
CookieValues == {EmptyValue} \cup IDs

cahUser == "admin"
cahPass == "hunter2"
Users == {"admin", "eve"}
Passwords == {"hunter2", "guess"}

Nil == "nil"
ErrNoCookie == "http: named cookie not present"
ErrInvalidCookie == "invalid cookie"
ErrSessionExpired == "Session expired"
ErrUnauthorizedStr == "Unauthorized"

StatusOK == 200
StatusBadRequest == 400
StatusForbidden == 403
StatusInternalServerError == 500

NoLocals ==
    [cookie |-> EmptyValue, fromJar |-> FALSE, expires |-> 0, n |-> 0,
     ok |-> FALSE, err |-> Nil, status |-> 0]

----------------------------------------------------------------------------
(* time.Time.After *)
NotBefore(a, b) == a >= b

After(a, b) == a > b

(* Login, line 410: expires := time.Now().UTC().Add(jwtDuration) *)
LoginExpiresNow(now) == now

LoginExpires(now) == now + jwtDuration

(* The for-range sweep of Login: delete every entry now is after. *)
SweepEager(m, now) ==
    [k \in {i \in DOMAIN m : now < m[i]} |-> m[k]]

SweepNothing(m, now) == m

Sweep(m, now) ==
    [k \in {i \in DOMAIN m : ~After(now, m[i])} |-> m[k]]

(* cah.cookies[cookie] = expires *)
MapSet(m, k, v) ==
    [i \in DOMAIN m \cup {k} |-> IF i = k THEN v ELSE m[i]]

(* delete(cah.cookies, k) *)
MapDeleteAll(m, k) == << >>

MapDelete(m, k) ==
    [i \in DOMAIN m \ {k} |-> m[i]]

(* randBase64(32): the identifiers a draw can return.  A draw never repeats *)
(* an earlier one, and the identifiers are interchangeable, so the draw    *)
(* after k earlier ones is written <<k + 1>>.                              *)
randBase64(used) ==
    IF IDs \ used = {} THEN {} ELSE {<<Cardinality(used) + 1>>}

(* sync.Mutex.Lock: blocks until the mutex is free. *)
LockNever(m) == TRUE

CanLock(m) == m = Free

----------------------------------------------------------------------------
(* The handlers that are not under study in a specification stay as        *)
(* constructed.                                                             *)
Malformed == [wf |-> FALSE, alg |-> "", key |-> "", iss |-> "", nbf |-> 0, exp |-> 0]
NoHeader == [present |-> FALSE, scheme |-> "", cred |-> Malformed]
NoRequest == [hdr |-> NoHeader, fromLogin |-> FALSE]
NoResponse == [status |-> 0, body |-> Malformed]

JwtInit ==
    /\ jpc = "idle"
    /\ jreq = NoRequest
    /\ jt = 0
    /\ jerr = Nil
    /\ jresp = NoResponse
    /\ jlast = Nil

ParseIdle ==
    /\ ppc = "idle"
    /\ pin = << >>
    /\ pout = [r |-> << >>, err |-> Nil]

ZeroAuth ==
    [AuthType |-> << >>, Username |-> "", Password |-> "", LoginURL |-> << >>,
     TokenName |-> "", TokenValue |-> ""]

ValidateIdle ==
    /\ vpc = "idle"
    /\ vcfg = ZeroAuth
    /\ vout = [enabled |-> FALSE, err |-> Nil]

NoHandler == [kind |-> "none"]
NotConstructed ==
    [lgr |-> FALSE, randOK |-> FALSE, url |-> << >>, hnd |-> NoHandler, err |-> Nil]

ConstructIdle == vnew = NotConstructed

NoQuery == << >>
NoHttpRequest == [hdr |-> NoHeader, query |-> NoQuery]

HandlerIdle ==
    /\ hpc = "idle"
    /\ hnd = NoHandler
    /\ hreq = NoHttpRequest
    /\ herr = Nil

ServiceIdle ==
    /\ epc = "start"
    /\ kpc = "unborn"
    /\ consumerErr = << >>
    /\ rChan = << >>
    /\ changes = "none"
    /\ entCh = 0
    /\ igst = FALSE

----------------------------------------------------------------------------
CookieInit ==
    /\ cookies = << >>
    /\ mutex = Free
    /\ pc = [p \in Procs |-> "idle"]
    /\ loc = [p \in Procs |-> NoLocals]
    /\ issued = {}
    /\ jar = << >>
    /\ okLogins = 0
    /\ expiredRet = {}

Init ==
    /\ clock = 1
    /\ CookieInit
    /\ JwtInit
    /\ ParseIdle
    /\ ValidateIdle
    /\ ConstructIdle
    /\ ServiceIdle
    /\ HandlerIdle

(* The wall clock advances. *)
Tick ==
    /\ clock < MaxClock
    /\ clock' = clock + 1
    /\ UNCHANGED <<cvars, jvars, pvars, vvars, hvars, nvars, wvars>>

LoginBeginNoCheck(p, formOK, u, pw, randOK) ==
    /\ pc[p] = "idle"
    /\ \E id \in randBase64(issued) :
          /\ loc' = [loc EXCEPT ![p] =
                       [NoLocals EXCEPT !.cookie = id,
                                        !.expires = LoginExpires(clock)]]
          /\ issued' = issued \cup {id}
          /\ pc' = [pc EXCEPT ![p] = "lLock"]
    /\ UNCHANGED <<clock, cookies, mutex, jar, okLogins, expiredRet,
                   jvars, pvars, vvars, hvars, nvars, wvars>>

(* Login, lines 394-417: parse the form, compare the credentials, compute  *)
(* expires and draw the session identifier.                                *)
LoginBegin(p, formOK, u, pw, randOK) ==
    /\ pc[p] = "idle"
    /\ IF ~formOK
       THEN /\ loc' = [loc EXCEPT ![p] = [NoLocals EXCEPT !.status = StatusBadRequest]]
            /\ pc' = [pc EXCEPT ![p] = "lDone"]
            /\ UNCHANGED issued
       ELSE IF u # cahUser \/ pw # cahPass
       THEN /\ loc' = [loc EXCEPT ![p] = [NoLocals EXCEPT !.status = StatusForbidden]]
            /\ pc' = [pc EXCEPT ![p] = "lDone"]
            /\ UNCHANGED issued
       ELSE IF ~randOK
       THEN /\ loc' = [loc EXCEPT ![p] =
                         [NoLocals EXCEPT !.status = StatusInternalServerError,
                                          !.expires = LoginExpires(clock)]]
            /\ pc' = [pc EXCEPT ![p] = "lDone"]
            /\ UNCHANGED issued
       ELSE \E id \in randBase64(issued) :
            /\ loc' = [loc EXCEPT ![p] =
                         [NoLocals EXCEPT !.cookie = id,
                                          !.expires = LoginExpires(clock)]]
            /\ issued' = issued \cup {id}
            /\ pc' = [pc EXCEPT ![p] = "lLock"]
    /\ UNCHANGED <<clock, cookies, mutex, jar, okLogins, expiredRet,
                   jvars, pvars, vvars, hvars, nvars, wvars>>

(* Login, line 418: cah.Lock() *)
LoginLock(p) ==
    /\ pc[p] = "lLock"
    /\ CanLock(mutex)
    /\ mutex' = p
    /\ pc' = [pc EXCEPT ![p] = "lInsert"]
    /\ UNCHANGED <<clock, cookies, loc, issued, jar, okLogins, expiredRet,
                   jvars, pvars, vvars, hvars, nvars, wvars>>

(* Login, line 420: cah.cookies[cookie] = expires *)
LoginInsert(p) ==
    /\ pc[p] = "lInsert"
    /\ cookies' = MapSet(cookies, loc[p].cookie, loc[p].expires)
    /\ pc' = [pc EXCEPT ![p] = "lSweep"]
    /\ UNCHANGED <<clock, mutex, loc, issued, jar, okLogins, expiredRet,
                   jvars, pvars, vvars, hvars, nvars, wvars>>

(* Login, lines 421-427: now := time.Now() and the sweep *)
LoginSweep(p) ==
    /\ pc[p] = "lSweep"
    /\ LET now == clock IN cookies' = Sweep(cookies, now)
    /\ pc' = [pc EXCEPT ![p] = "lUnlock"]
    /\ UNCHANGED <<clock, mutex, loc, issued, jar, okLogins, expiredRet,
                   jvars, pvars, vvars, hvars, nvars, wvars>>

LoginUnlockLate(p) ==
    /\ pc[p] = "lUnlock"
    /\ pc' = [pc EXCEPT ![p] = "lSetCookie"]
    /\ UNCHANGED <<clock, cookies, mutex, loc, issued, jar, okLogins, expiredRet,
                   jvars, pvars, vvars, hvars, nvars, wvars>>

(* Login, line 428: cah.Unlock() *)
LoginUnlock(p) ==
    /\ pc[p] = "lUnlock"
    /\ mutex' = Free
    /\ pc' = [pc EXCEPT ![p] = "lSetCookie"]
    /\ UNCHANGED <<clock, cookies, loc, issued, jar, okLogins, expiredRet,
                   jvars, pvars, vvars, hvars, nvars, wvars>>

(* Login, lines 429-436: http.SetCookie and return *)
LoginSetCookie(p) ==
    /\ pc[p] = "lSetCookie"
    /\ jar' = MapSet(jar, loc[p].cookie, loc[p].expires)
    /\ okLogins' = okLogins + 1
    /\ loc' = [loc EXCEPT ![p].status = StatusOK]
    /\ pc' = [pc EXCEPT ![p] = "lDone"]
    /\ UNCHANGED <<clock, cookies, mutex, issued, expiredRet,
                   jvars, pvars, vvars, hvars, nvars, wvars>>

(* AuthRequest, lines 439-448: read the cookie, n := time.Now().  The       *)
(* request may carry any cookie value; fromJar notes whether it is one a   *)
(* Login has handed out.                                                    *)
AuthBegin(p, present, c) ==
    /\ pc[p] = "idle"
    /\ IF ~present
       THEN /\ loc' = [loc EXCEPT ![p] = [NoLocals EXCEPT !.err = ErrNoCookie]]
            /\ pc' = [pc EXCEPT ![p] = "aDone"]
       ELSE IF c = EmptyValue
       THEN /\ loc' = [loc EXCEPT ![p] =
                         [NoLocals EXCEPT !.cookie = c, !.err = ErrInvalidCookie]]
            /\ pc' = [pc EXCEPT ![p] = "aDone"]
       ELSE /\ loc' = [loc EXCEPT ![p] =
                         [NoLocals EXCEPT !.cookie = c, !.n = clock,
                                          !.fromJar = c \in DOMAIN jar]]
            /\ pc' = [pc EXCEPT ![p] = "aLock"]
    /\ UNCHANGED <<clock, cookies, mutex, issued, jar, okLogins, expiredRet,
                   jvars, pvars, vvars, hvars, nvars, wvars>>

(* AuthRequest, line 449: cah.Lock() *)
AuthLock(p) ==
    /\ pc[p] = "aLock"
    /\ CanLock(mutex)
    /\ mutex' = p
    /\ pc' = [pc EXCEPT ![p] = "aLookup"]
    /\ UNCHANGED <<clock, cookies, loc, issued, jar, okLogins, expiredRet,
                   jvars, pvars, vvars, hvars, nvars, wvars>>

AuthLookupFound(p) ==
    /\ pc[p] = "aLookup"
    /\ loc' = [loc EXCEPT ![p].ok = TRUE, ![p].expires = MaxClock]
    /\ pc' = [pc EXCEPT ![p] = "aCheck"]
    /\ UNCHANGED <<clock, cookies, mutex, issued, jar, okLogins, expiredRet,
                   jvars, pvars, vvars, hvars, nvars, wvars>>

(* AuthRequest, line 450: expires, ok := cah.cookies[c.Value] *)
AuthLookup(p) ==
    /\ pc[p] = "aLookup"
    /\ LET id == loc[p].cookie IN
       loc' = [loc EXCEPT ![p].ok = id \in DOMAIN cookies,
                          ![p].expires = IF id \in DOMAIN cookies THEN cookies[id] ELSE 0]
    /\ pc' = [pc EXCEPT ![p] = "aCheck"]
    /\ UNCHANGED <<clock, cookies, mutex, issued, jar, okLogins, expiredRet,
                   jvars, pvars, vvars, hvars, nvars, wvars>>

(* AuthRequest, lines 451-458: the expiry check, the delete, the error *)
AuthCheck(p) ==
    /\ pc[p] = "aCheck"
    /\ IF loc[p].ok
       THEN IF After(loc[p].n, loc[p].expires)
            THEN /\ cookies' = MapDelete(cookies, loc[p].cookie)
                 /\ loc' = [loc EXCEPT ![p].err = ErrSessionExpired]
                 /\ expiredRet' = expiredRet \cup {loc[p].cookie}
            ELSE UNCHANGED <<cookies, loc, expiredRet>>
       ELSE /\ loc' = [loc EXCEPT ![p].err = ErrUnauthorizedStr]
            /\ UNCHANGED <<cookies, expiredRet>>
    /\ pc' = [pc EXCEPT ![p] = "aUnlock"]
    /\ UNCHANGED <<clock, mutex, issued, jar, okLogins,
                   jvars, pvars, vvars, hvars, nvars, wvars>>

AuthUnlockKeeps(p) ==
    /\ pc[p] = "aUnlock"
    /\ loc' = [loc EXCEPT ![p] =
                 [NoLocals EXCEPT !.cookie = loc[p].cookie, !.err = loc[p].err]]
    /\ pc' = [pc EXCEPT ![p] = "aDone"]
    /\ UNCHANGED <<clock, cookies, mutex, issued, jar, okLogins, expiredRet,
                   jvars, pvars, vvars, hvars, nvars, wvars>>

(* AuthRequest, lines 459-460: cah.Unlock() and return err; of the locals  *)
(* only the request's cookie and err outlive the call.                     *)
AuthUnlock(p) ==
    /\ pc[p] = "aUnlock"
    /\ mutex' = Free
    /\ loc' = [loc EXCEPT ![p] =
                 [NoLocals EXCEPT !.cookie = loc[p].cookie, !.err = loc[p].err]]
    /\ pc' = [pc EXCEPT ![p] = "aDone"]
    /\ UNCHANGED <<clock, cookies, issued, jar, okLogins, expiredRet,
                   jvars, pvars, vvars, hvars, nvars, wvars>>

(* The handler has returned; the caller's goroutine serves its next request. *)
Return(p) ==
    /\ pc[p] \in {"lDone", "aDone"}
    /\ pc' = [pc EXCEPT ![p] = "idle"]
    /\ loc' = [loc EXCEPT ![p] = NoLocals]
    /\ UNCHANGED <<clock, cookies, mutex, issued, jar, okLogins, expiredRet,
                   jvars, pvars, vvars, hvars, nvars, wvars>>

Next ==
    \/ Tick
    \/ \E p \in Procs, formOK \in BOOLEAN, u \in Users, pw \in Passwords,
          randOK \in BOOLEAN : LoginBegin(p, formOK, u, pw, randOK)
    \/ \E p \in Procs : LoginLock(p)
    \/ \E p \in Procs : LoginInsert(p)
    \/ \E p \in Procs : LoginSweep(p)
    \/ \E p \in Procs : LoginUnlock(p)
    \/ \E p \in Procs : LoginSetCookie(p)
    \/ \E p \in Procs, present \in BOOLEAN, c \in CookieValues :
          AuthBegin(p, present, c)
    \/ \E p \in Procs : AuthLock(p)
    \/ \E p \in Procs : AuthLookup(p)
    \/ \E p \in Procs : AuthCheck(p)
    \/ \E p \in Procs : AuthUnlock(p)
    \/ \E p \in Procs : Return(p)

Spec == Init /\ [][Next]_vars

(* Scheduling: a caller that can take its next step takes it, and a caller *)
(* waiting in Lock gets the mutex when it is free again and again          *)
(* (sync.Mutex hands the mutex to a waiter that has waited too long).       *)
Running(p) ==
    \/ LoginInsert(p)
    \/ LoginSweep(p)
    \/ LoginUnlock(p)
    \/ LoginSetCookie(p)
    \/ AuthLookup(p)
    \/ AuthCheck(p)
    \/ AuthUnlock(p)

Acquire(p) == LoginLock(p) \/ AuthLock(p)

Fairness == \A p \in Procs : WF_vars(Running(p)) /\ SF_vars(Acquire(p))

SpecFair == Init /\ [][Next]_vars /\ Fairness

----------------------------------------------------------------------------
(* jwtAuthHandler.  A token string is written as the record of what it     *)
(* encodes: wf (three decodable segments), the header's alg, the key its   *)
(* signature was made with, and the claims iss, nbf, exp; a claim of 0 is  *)
(* absent, as in jwt.StandardClaims.  An Authorization header is written   *)
(* as its scheme word and the credential after the space.                  *)
issuer == "gravwell"
jahSecret == "secret"
jahUser == "admin"
jahPass == "hunter2"
OtherKey == "other key"
HMACFamily == {"HS256", "HS384"}
Algs == HMACFamily \cup {"RS256", "none"}
Issuers == {issuer, "evil"}
Keys == {jahSecret, OtherKey}
Schemes == {"Bearer", "Basic"}

Tokens ==
    [wf : {TRUE}, alg : Algs, key : Keys, iss : Issuers,
     nbf : 0..MaxClock, exp : 0..(MaxClock + 1)]

Headers ==
    {NoHeader} \cup [present : {TRUE}, scheme : Schemes, cred : Tokens \cup {Malformed}]

ErrMissingHeader == "Missing Authorization header value"
ErrInvalidTokenName == "invalid authorization token name"
ErrMalformed == "token contains an invalid number of segments"
ErrUnexpectedMethod == "Unexpected signing method"
ErrInvalidKeyType == "key is of invalid type"
ErrNoneNotAllowed == "'none' signature type is not allowed"
ErrSignatureInvalid == "signature is invalid"
ErrTokenIsExpired == "token is expired"
ErrNotValidYet == "token is not valid yet"
ErrInvalidToken == "invalid token"
ErrTokenExpired == "token expired"

(* getAuthToken(r, tokName), lines 467-483 *)
getAuthToken(hdr, tokName) ==
    IF tokName = "" THEN [err |-> "Empty token name", ret |-> Malformed]
    ELSE IF ~hdr.present THEN [err |-> ErrMissingHeader, ret |-> Malformed]
    ELSE IF hdr.scheme # tokName THEN [err |-> ErrInvalidTokenName, ret |-> Malformed]
    ELSE [err |-> Nil, ret |-> hdr.cred]

(* getJWTToken, lines 463-465 *)
getJWTToken(hdr) == getAuthToken(hdr, "Bearer")

(* Login, lines 314-320: the claims of the token *)
LoginClaimsNoWindow(now) == [nbf |-> now, exp |-> now, iss |-> issuer]

LoginClaims(now) == [nbf |-> now, exp |-> now + jwtDuration, iss |-> issuer]

(* Login, lines 321-322: jwt.NewWithClaims(jwt.SigningMethodHS256, claims)  *)
(* signed with the handler's secret                                         *)
SignedString(claims, secret) ==
    [wf |-> TRUE, alg |-> "HS256", key |-> secret,
     iss |-> claims.iss, nbf |-> claims.nbf, exp |-> claims.exp]

(* secretParser, lines 360-366 *)
secretParserNoMethodCheck(token) == [err |-> Nil, key |-> jahSecret]

secretParserWrongKey(token) ==
    IF token.alg \notin HMACFamily
    THEN [err |-> ErrUnexpectedMethod, key |-> ""]
    ELSE [err |-> Nil, key |-> OtherKey]

secretParser(token) ==
    IF token.alg \notin HMACFamily
    THEN [err |-> ErrUnexpectedMethod, key |-> ""]
    ELSE [err |-> Nil, key |-> jahSecret]

(* jwt.StandardClaims.Valid at time now: exp, then nbf; the error of the   *)
(* last failing check is the one reported.                                 *)
ClaimsValid(token, now) ==
    IF token.nbf # 0 /\ now < token.nbf THEN ErrNotValidYet
    ELSE IF token.exp # 0 /\ now > token.exp THEN ErrTokenIsExpired
    ELSE Nil

(* SigningMethod.Verify with a []byte key *)
MethodVerify(token, key) ==
    IF token.alg = "none" THEN ErrNoneNotAllowed
    ELSE IF token.alg \notin HMACFamily THEN ErrInvalidKeyType
    ELSE IF token.key # key THEN ErrSignatureInvalid
    ELSE Nil

(* jwt.ParseWithClaims(ss, &claims, bah.secretParser) at time now, line 340 *)
ParseWithClaims(ss, now) ==
    IF ~ss.wf THEN ErrMalformed
    ELSE LET k == secretParser(ss) IN
         IF k.err # Nil THEN k.err
         ELSE IF MethodVerify(ss, k.key) # Nil THEN MethodVerify(ss, k.key)
         ELSE ClaimsValid(ss, now)

(* jwtAuthHandler.Login, lines 297-331 *)
JwtLogin(formOK, u, pw) ==
    /\ jpc = "idle"
    /\ IF ~formOK
       THEN jresp' = [status |-> StatusBadRequest, body |-> Malformed]
       ELSE IF u # jahUser \/ pw # jahPass
       THEN jresp' = [status |-> StatusForbidden, body |-> Malformed]
       ELSE LET now == clock IN
            jresp' = [status |-> StatusOK,
                      body |-> SignedString(LoginClaims(now), jahSecret)]
    /\ UNCHANGED <<clock, jpc, jreq, jt, jerr, jlast, cvars, pvars, vvars, hvars, nvars, wvars>>

(* AuthRequest, lines 333-343: the bearer token and jwt.ParseWithClaims.   *)
(* The request carries any header, or the token the last Login returned.   *)
JwtAuthBegin(hdr, fromLogin) ==
    /\ jpc = "idle"
    /\ fromLogin =>
          /\ jresp.status = StatusOK
          /\ hdr = [present |-> TRUE, scheme |-> "Bearer", cred |-> jresp.body]
    /\ jreq' = [hdr |-> hdr, fromLogin |-> fromLogin]
    /\ LET got == getJWTToken(hdr)
           err == IF got.err # Nil THEN got.err ELSE ParseWithClaims(got.ret, clock)
       IN  /\ jerr' = err
           /\ jpc' = IF err # Nil THEN "done" ELSE "now"
    /\ UNCHANGED <<clock, jt, jresp, jlast, cvars, pvars, vvars, hvars, nvars, wvars>>

(* AuthRequest, line 344: t := time.Now().Unix() *)
JwtNow ==
    /\ jpc = "now"
    /\ jt' = clock
    /\ jpc' = "tokValid"
    /\ UNCHANGED <<clock, jreq, jerr, jresp, jlast, cvars, pvars, vvars, hvars, nvars, wvars>>

(* AuthRequest, lines 345-348: tok.Valid and tok.Claims.Valid() *)
JwtTokValid ==
    /\ jpc = "tokValid"
    /\ LET err == ClaimsValid(jreq.hdr.cred, clock) IN
       /\ jerr' = err
       /\ jpc' = IF err # Nil THEN "done" ELSE "claimsValid"
    /\ UNCHANGED <<clock, jreq, jt, jresp, jlast, cvars, pvars, vvars, hvars, nvars, wvars>>

(* AuthRequest, lines 349-357: claims.Valid(), then issuer and window *)
JwtClaimsValid ==
    /\ jpc = "claimsValid"
    /\ LET claims == jreq.hdr.cred
           t == jt
           err == ClaimsValid(claims, clock)
       IN  jerr' = IF err # Nil THEN err
                   ELSE IF claims.iss # issuer \/ t < claims.nbf \/ t > claims.exp
                   THEN ErrTokenExpired
                   ELSE Nil
    /\ jpc' = "done"
    /\ UNCHANGED <<clock, jreq, jt, jresp, jlast, cvars, pvars, vvars, hvars, nvars, wvars>>

(* AuthRequest has returned jerr; the caller takes its next request. *)
JwtReturn ==
    /\ jpc = "done"
    /\ jlast' = IF jerr # Nil /\ getJWTToken(jreq.hdr).err = Nil THEN jerr ELSE jlast
    /\ jpc' = "idle"
    /\ jreq' = NoRequest
    /\ jt' = 0
    /\ jerr' = Nil
    /\ UNCHANGED <<clock, jresp, cvars, pvars, vvars, hvars, nvars, wvars>>

JwtNext ==
    \/ Tick
    \/ /\ jpc = "idle"
       /\ \E formOK \in BOOLEAN, u \in Users, pw \in Passwords : JwtLogin(formOK, u, pw)
    \/ /\ jpc = "idle"
       /\ \E hdr \in Headers : JwtAuthBegin(hdr, FALSE)
    \/ /\ jpc = "idle"
       /\ jresp.status = StatusOK
       /\ JwtAuthBegin([present |-> TRUE, scheme |-> "Bearer", cred |-> jresp.body], TRUE)
    \/ JwtNow
    \/ JwtTokValid
    \/ JwtClaimsValid
    \/ JwtReturn

SpecJWT == Init /\ [][JwtNext]_vars

----------------------------------------------------------------------------
(* jwtAuthHandler: the claims *)
JwtCompleted == jpc # "done" /\ jpc' = "done"
CarriesBearer(req) == getJWTToken(req.hdr).err = Nil

(* C5: the token a Login returns for the configured credentials at clock   *)
(* value t0 is signed HS256 with the handler's secret and carries the       *)
(* fixed issuer, notBefore = t0 and expiresAt = t0 + jwtDuration; an        *)
(* AuthRequest presenting it is never before t0, and it returns nil when    *)
(* the clock is at most t0 + jwtDuration as it decides and an error when    *)
(* the clock is past t0 + jwtDuration.                                      *)
C5_JwtWindow ==
    [][/\ (jresp' # jresp /\ jresp'.status = StatusOK) =>
            jresp'.body = [wf |-> TRUE, alg |-> "HS256", key |-> jahSecret,
                           iss |-> issuer, nbf |-> clock,
                           exp |-> clock + jwtDuration]
       /\ (JwtCompleted /\ jreq'.fromLogin) =>
            LET t0 == jreq'.hdr.cred.nbf
            IN  /\ t0 <= clock
                /\ clock <= t0 + jwtDuration => jerr' = Nil
                /\ clock > t0 + jwtDuration => jerr' # Nil]_vars

C5_Witness ==
    /\ jpc = "done"
    /\ jreq.fromLogin
    /\ clock = jreq.hdr.cred.nbf + jwtDuration
    /\ jt = clock
    /\ jerr = Nil

(* C6: AuthRequest never gets past jwt.ParseWithClaims, and never returns  *)
(* nil, for a token whose signature was made with another key than the     *)
(* handler's secret or whose algorithm is not of the HMAC family,           *)
(* whatever its issuer, notBefore and expiresAt.                            *)
C6_ForgedRejected ==
    LET tok == jreq.hdr.cred
        forged == tok.key # jahSecret \/ tok.alg \notin HMACFamily
    IN  /\ (jpc = "done" /\ CarriesBearer(jreq) /\ forged) => jerr # Nil
        /\ jpc \in {"now", "tokValid", "claimsValid"} => ~forged

C6_Witness ==
    LET tok == jreq.hdr.cred IN
    /\ jpc = "done"
    /\ CarriesBearer(jreq)
    /\ tok.wf
    /\ tok.alg = "HS256"
    /\ tok.key = OtherKey
    /\ tok.iss = issuer
    /\ tok.nbf # 0 /\ tok.nbf <= clock /\ clock <= tok.exp
    /\ jerr = ErrSignatureInvalid

(* C7, as stated: every rejection of a request that carries a bearer token *)
(* returns the same error as the rejection before it.                       *)
C7_AsStated ==
    (jpc = "done" /\ CarriesBearer(jreq) /\ jerr # Nil /\ jlast # Nil)
        => jerr = jlast

(* C7, amended: every rejection of a request that carries a bearer token   *)
(* returns an error, and the error tells the cause: a malformed token       *)
(* returns the parser's error, an algorithm outside the HMAC family         *)
(* Unexpected signing method, a signature made with another key signature   *)
(* is invalid, a clock outside a stated window the library's not valid yet  *)
(* or is expired, and a wrong issuer or a missing expiresAt token expired.  *)
C7_RejectionErrors ==
    [][(JwtCompleted /\ CarriesBearer(jreq')) =>
        LET tok == jreq'.hdr.cred
            e == jerr'
        IN
        /\ ~tok.wf => e = ErrMalformed
        /\ (tok.wf /\ tok.alg \notin HMACFamily) => e = ErrUnexpectedMethod
        /\ (tok.wf /\ tok.alg \in HMACFamily /\ tok.key # jahSecret) =>
              e = ErrSignatureInvalid
        /\ (tok.wf /\ tok.alg \in HMACFamily /\ tok.key = jahSecret) =>
              /\ e \in {Nil, ErrNotValidYet, ErrTokenIsExpired, ErrTokenExpired}
              /\ e = ErrNotValidYet => (tok.nbf # 0 /\ clock < tok.nbf)
              /\ e = ErrTokenIsExpired => (tok.exp # 0 /\ clock > tok.exp)
              /\ e = ErrTokenExpired => (tok.iss # issuer \/ tok.exp = 0)
              /\ e = Nil => (tok.iss = issuer /\ tok.nbf <= jt /\ jt <= tok.exp)
              /\ tok.iss # issuer => e # Nil]_vars

C7_Witness ==
    /\ jpc = "done"
    /\ CarriesBearer(jreq)
    /\ jreq.hdr.cred.wf
    /\ jreq.hdr.cred.iss # issuer
    /\ jerr = ErrTokenExpired
    /\ jlast = ErrMalformed

----------------------------------------------------------------------------
(* parseAuthType and auth.Validate.  The strings these functions take      *)
(* apart (the AuthType and the login URL) are written as sequences of      *)
(* one-character strings; the other fields are only compared with ``.      *)
_none == << >>
none == <<"n", "o", "n", "e">>
basic == <<"b", "a", "s", "i", "c">>
jwtT == <<"j", "w", "t">>
cookie == <<"c", "o", "o", "k", "i", "e">>
preToken ==
    <<"p", "r", "e", "s", "h", "a", "r", "e", "d", "-", "t", "o", "k", "e", "n">>
preParam ==
    <<"p", "r", "e", "s", "h", "a", "r", "e", "d", "-",
      "p", "a", "r", "a", "m", "e", "t", "e", "r">>
defaultTokenName == "Bearer"

ErrInvalidAuthType == "Invalid authentication type"
ErrLoginURLRequired == "Authentication type requires a login URL"
ErrInvalidLoginURL == "Invalid login url"
ErrMissingUsername == "Missing username"
ErrMissingPassword == "Missing password"
ErrMissingTokenValueFor == "Missing Token-Value"

LowerCase ==
    <<"a", "b", "c", "d", "e", "f", "g", "h", "i", "j", "k", "l", "m",
      "n", "o", "p", "q", "r", "s", "t", "u", "v", "w", "x", "y", "z">>
UpperCase ==
    <<"A", "B", "C", "D", "E", "F", "G", "H", "I", "J", "K", "L", "M",
      "N", "O", "P", "Q", "R", "S", "T", "U", "V", "W", "X", "Y", "Z">>

Index(tbl, c) ==
    IF \E i \in DOMAIN tbl : tbl[i] = c
    THEN CHOOSE i \in DOMAIN tbl : tbl[i] = c
    ELSE 0

(* strings.ToLower *)
ToLower(v) ==
    [i \in 1..Len(v) |->
        IF Index(UpperCase, v[i]) # 0 THEN LowerCase[Index(UpperCase, v[i])] ELSE v[i]]

(* strings.ToUpper *)
ToUpper(v) ==
    [i \in 1..Len(v) |->
        IF Index(LowerCase, v[i]) # 0 THEN UpperCase[Index(LowerCase, v[i])] ELSE v[i]]

IsSpace(c) == c \in {" ", "\t", "\n", "\r"}

RECURSIVE TrimLeft(_)
TrimLeft(v) ==
    IF v = << >> THEN v
    ELSE IF IsSpace(Head(v)) THEN TrimLeft(Tail(v))
    ELSE v

RECURSIVE TrimRight(_)
TrimRight(v) ==
    IF v = << >> THEN v
    ELSE IF IsSpace(v[Len(v)]) THEN TrimRight(SubSeq(v, 1, Len(v) - 1))
    ELSE v

(* strings.TrimSpace *)
TrimSpace(v) == TrimRight(TrimLeft(v))

(* parseAuthType, lines 141-155 *)
parseAuthType(v) ==
    LET r == TrimSpace(ToLower(v)) IN
    IF r = _none THEN [r |-> none, err |-> Nil]
    ELSE IF r \in {none, basic, jwtT, cookie} THEN [r |-> r, err |-> Nil]
    ELSE [r |-> none, err |-> ErrInvalidAuthType]

(* The arguments parseAuthType is tried on: the recognized tags, the empty *)
(* string and some other words, in three spellings, with and without       *)
(* white space around them.                                                 *)
Words ==
    {_none, none, basic, jwtT, cookie, preToken, preParam,
     <<"b", "o", "g", "u", "s">>, <<"j", "w", "t", "s">>, <<"j", " ", "w", "t">>,
     <<"n", "o", "n">>}
Capitalize(w) == IF w = << >> THEN w ELSE ToUpper(<<Head(w)>>) \o Tail(w)
Spellings(w) == {w, ToUpper(w), Capitalize(w)}
Paddings == {<< >>, <<" ">>, <<"\t", " ">>}
ParseInputs ==
    {l \o s \o r : l \in Paddings, r \in Paddings,
                   s \in UNION {Spellings(w) : w \in Words}}

InitParse ==
    /\ clock = 1
    /\ CookieInit
    /\ JwtInit
    /\ ValidateIdle
    /\ ConstructIdle
    /\ ServiceIdle
    /\ HandlerIdle
    /\ ppc = "idle"
    /\ pin \in ParseInputs
    /\ pout = [r |-> << >>, err |-> Nil]

ParseCall ==
    /\ ppc = "idle"
    /\ pout' = parseAuthType(pin)
    /\ ppc' = "called"
    /\ UNCHANGED <<pin, clock, cvars, jvars, vvars, hvars, nvars, wvars>>

SpecParse == InitParse /\ [][ParseCall]_vars

(* url.Parse, as far as these rules: no control character; a leading       *)
(* colon is a missing protocol scheme; without a scheme and without a      *)
(* leading slash the first path segment holds no colon; every % is         *)
(* followed by two hexadecimal digits.                                      *)
Letters == {"a", "l", "h"}
Digits == {"1"}
HexDigits == {"a", "1"}
CTL == "\r"

RECURSIVE SchemeEnd(_, _)
(* getScheme: the index of the colon ending the scheme, 0 when there is no *)
(* scheme, -1 for the missing protocol scheme                               *)
SchemeEnd(u, i) ==
    IF i > Len(u) THEN 0
    ELSE IF u[i] \in Letters THEN SchemeEnd(u, i + 1)
    ELSE IF u[i] \in Digits THEN (IF i = 1 THEN 0 ELSE SchemeEnd(u, i + 1))
    ELSE IF u[i] = ":" THEN (IF i = 1 THEN 0 - 1 ELSE i)
    ELSE 0

FirstIndex(u, c) ==
    IF \E i \in 1..Len(u) : u[i] = c
    THEN CHOOSE i \in 1..Len(u) : u[i] = c /\ \A j \in 1..(i - 1) : u[j] # c
    ELSE 0

BadEscape(u) ==
    \E i \in 1..Len(u) :
        /\ u[i] = "%"
        /\ ~(i + 2 <= Len(u) /\ u[i + 1] \in HexDigits /\ u[i + 2] \in HexDigits)

urlParse(u) ==
    IF \E i \in 1..Len(u) : u[i] = CTL THEN "invalid control character in URL"
    ELSE LET e == SchemeEnd(u, 1) IN
         IF e < 0 THEN "missing protocol scheme"
         ELSE LET rest == SubSeq(u, e + 1, Len(u))
                  colon == FirstIndex(rest, ":")
                  slash == FirstIndex(rest, "/")
                  rootless == rest = << >> \/ Head(rest) # "/"
              IN  IF rootless /\ e # 0 THEN Nil
                  ELSE IF rootless /\ colon > 0 /\ (slash = 0 \/ colon < slash)
                  THEN "first path segment in URL cannot contain colon"
                  ELSE IF BadEscape(rest) THEN "invalid URL escape"
                  ELSE Nil

(* auth.Validate, lines 71-111: the results and the structure it leaves *)
ValidateNoPassword(a) ==
    IF a.AuthType = basic \/ a.AuthType = jwtT \/ a.AuthType = cookie
    THEN [enabled |-> a.Username # "", err |-> IF a.Username = "" THEN ErrMissingUsername ELSE Nil, a |-> a]
    ELSE [enabled |-> a.TokenValue # "" /\ a.AuthType \in {preToken, preParam},
          err |-> IF a.TokenValue = "" /\ a.AuthType \in {preToken, preParam}
                  THEN ErrMissingTokenValueFor ELSE Nil,
          a |-> a]

Validate(a) ==
    IF a.AuthType = none THEN [enabled |-> FALSE, err |-> Nil, a |-> a]
    ELSE IF a.AuthType = basic THEN
        IF a.Username = "" THEN [enabled |-> FALSE, err |-> ErrMissingUsername, a |-> a]
        ELSE IF a.Password = "" THEN [enabled |-> FALSE, err |-> ErrMissingPassword, a |-> a]
        ELSE [enabled |-> TRUE, err |-> Nil, a |-> a]
    ELSE IF a.AuthType = jwtT \/ a.AuthType = cookie THEN
        IF a.LoginURL = << >> THEN [enabled |-> FALSE, err |-> ErrLoginURLRequired, a |-> a]
        ELSE IF urlParse(a.LoginURL) # Nil
        THEN [enabled |-> FALSE, err |-> ErrInvalidLoginURL, a |-> a]
        ELSE IF a.Username = "" THEN [enabled |-> FALSE, err |-> ErrMissingUsername, a |-> a]
        ELSE IF a.Password = "" THEN [enabled |-> FALSE, err |-> ErrMissingPassword, a |-> a]
        ELSE [enabled |-> TRUE, err |-> Nil, a |-> a]
    ELSE IF a.AuthType = preToken \/ a.AuthType = preParam THEN
        LET a2 == IF a.TokenName = "" THEN [a EXCEPT !.TokenName = defaultTokenName]
                  ELSE a
        IN  IF a2.TokenValue = ""
            THEN [enabled |-> FALSE, err |-> ErrMissingTokenValueFor, a |-> a2]
            ELSE [enabled |-> TRUE, err |-> Nil, a |-> a2]
    ELSE [enabled |-> FALSE, err |-> Nil, a |-> a]

AuthTypes ==
    {_none, none, basic, jwtT, cookie, preToken, preParam,
     <<"b", "o", "g", "u", "s">>, ToUpper(basic)}
LoginURLs ==
    {<< >>,
     <<"/", "l">>,
     <<"h", ":", "/", "l">>,
     <<"h", ":", "l">>,
     <<":", "l">>,
     <<"1", "h", ":", "l">>,
     <<"l", "/", "a", ":", "1">>,
     <<"/", "%">>,
     <<"/", "%", "a", "1">>,
     <<"/", CTL>>}
Configs ==
    [AuthType : AuthTypes, Username : {"", "admin"}, Password : {"", "hunter2"},
     LoginURL : LoginURLs, TokenName : {"", "X-Token"}, TokenValue : {"", "s3cr3t"}]

InitValidate ==
    /\ clock = 1
    /\ CookieInit
    /\ JwtInit
    /\ ParseIdle
    /\ ConstructIdle
    /\ ServiceIdle
    /\ HandlerIdle
    /\ vpc = "idle"
    /\ vcfg \in Configs
    /\ vout = [enabled |-> FALSE, err |-> Nil]

ValidateCall ==
    /\ vpc = "idle"
    /\ LET got == Validate(vcfg) IN
       /\ vout' = [enabled |-> got.enabled, err |-> got.err]
       /\ vcfg' = got.a
    /\ vpc' = "called"
    /\ UNCHANGED <<clock, cvars, jvars, pvars, hvars, nvars, wvars>>

SpecValidate == InitValidate /\ [][ValidateCall]_vars

----------------------------------------------------------------------------
(* parseAuthType and auth.Validate: the claims *)
RecognizedTags == {none, basic, jwtT, cookie, preToken, preParam}

(* C8: parseAuthType of a string that, lower-cased and trimmed, is one of   *)
(* the six recognized tags returns that tag and no error; of a string that  *)
(* is then empty returns the disabled type none and no error; and of any    *)
(* other string returns none with ErrInvalidAuthType.                       *)
C8_ParseAsStated ==
    ppc = "called" =>
        LET tag == TrimSpace(ToLower(pin)) IN
        /\ tag \in RecognizedTags => pout = [r |-> tag, err |-> Nil]
        /\ tag = _none => pout = [r |-> none, err |-> Nil]
        /\ tag \notin RecognizedTags \cup {_none} =>
              pout = [r |-> none, err |-> ErrInvalidAuthType]

(* What Validate requires of each enabled type *)
RequiredPresent(a) ==
    IF a.AuthType = basic THEN a.Username # "" /\ a.Password # ""
    ELSE IF a.AuthType \in {jwtT, cookie}
    THEN /\ a.Username # "" /\ a.Password # ""
         /\ a.LoginURL # << >> /\ urlParse(a.LoginURL) = Nil
    ELSE a.TokenValue # ""

(* C9: for the types basic, jwt, cookie, preshared-token and                *)
(* preshared-parameter Validate returns enabled and no error exactly when   *)
(* the fields the type requires are present, and not enabled with an error  *)
(* when one is missing; for none and the empty type it returns not enabled  *)
(* and no error.                                                            *)
C9_Validate ==
    vpc = "called" =>
        /\ vcfg.AuthType \in {basic, jwtT, cookie, preToken, preParam} =>
              IF RequiredPresent(vcfg)
              THEN vout.enabled /\ vout.err = Nil
              ELSE ~vout.enabled /\ vout.err # Nil
        /\ vcfg.AuthType \in {none, _none} => (~vout.enabled /\ vout.err = Nil)

C9_Witness ==
    /\ vpc = "called"
    /\ vcfg.AuthType = cookie
    /\ vcfg.Username # "" /\ vcfg.Password = ""
    /\ vcfg.LoginURL # << >> /\ urlParse(vcfg.LoginURL) = Nil
    /\ ~vout.enabled
    /\ vout.err = ErrMissingPassword

(* C10: Validate of a configuration whose AuthType is neither empty nor     *)
(* one of the six recognized tags fails with ErrInvalidAuthType.            *)
C10_UnknownTypeAsStated ==
    (vpc = "called" /\ vcfg.AuthType \notin RecognizedTags \cup {_none}) =>
        (~vout.enabled /\ vout.err = ErrInvalidAuthType)

----------------------------------------------------------------------------
(* The handlers without state: basicAuthHandler, preTokenHandler and       *)
(* preParamHandler.  The credentials of a basic request are strings that   *)
(* are taken apart, written as sequences of one-character strings; a URL   *)
(* query is the sequence of its name=value pairs.                          *)
MaxParams == 2

ErrMissingTokenName == "Token name is invalid"
ErrMissingTokenValue == "Token value cannot be empty"
ErrMissingAuthentication == "Missing authentication"
ErrBadCredentials == "Bad username or password"
ErrEmptyTokenName == "Empty token name"
ErrMissingParameter == "Missing parameter"

(* newBasicAuthHandler, lines 171-178 *)
newBasicAuthHandler(user, pass) ==
    [hnd |-> [kind |-> "basic", user |-> user, pass |-> pass], err |-> Nil]

(* newPresharedTokenHandler, lines 204-219 *)
newPresharedTokenHandler(name, value) ==
    IF name = "" THEN [hnd |-> NoHandler, err |-> ErrMissingTokenName]
    ELSE IF value = "" THEN [hnd |-> NoHandler, err |-> ErrMissingTokenValue]
    ELSE [hnd |-> [kind |-> "preToken", tokName |-> name, tokValue |-> value],
          err |-> Nil]

(* newPresharedParamHandler, lines 235-250 *)
newPresharedParamHandler(name, value) ==
    IF name = "" THEN [hnd |-> NoHandler, err |-> ErrMissingTokenName]
    ELSE IF value = "" THEN [hnd |-> NoHandler, err |-> ErrMissingTokenValue]
    ELSE [hnd |-> [kind |-> "preParam", tokName |-> name, tokValue |-> value],
          err |-> Nil]

(* http.Request.BasicAuth: the header is there, its scheme word is Basic   *)
(* in any case, the credential decodes as base64 and the decoded text is   *)
(* cut at its first colon.                                                  *)
BasicAuth(hdr) ==
    LET no == [u |-> << >>, p |-> << >>, ok |-> FALSE]
        text == hdr.cred.text
        i == FirstIndex(text, ":")
    IN  IF ~hdr.present THEN no
        ELSE IF ToLower(hdr.scheme) # basic THEN no
        ELSE IF ~hdr.cred.b64 THEN no
        ELSE IF i = 0 THEN no
        ELSE [u |-> SubSeq(text, 1, i - 1), p |-> SubSeq(text, i + 1, Len(text)),
              ok |-> TRUE]

(* basicAuthHandler.AuthRequest, lines 180-191 *)
BasicAcceptsUser(bah, r) ==
    LET got == BasicAuth(r.hdr) IN
    IF ~got.ok THEN ErrMissingAuthentication
    ELSE IF ~(got.u = bah.user) THEN ErrBadCredentials
    ELSE Nil

BasicAuthRequest(bah, r) ==
    LET got == BasicAuth(r.hdr) IN
    IF ~got.ok THEN ErrMissingAuthentication
    ELSE IF ~((got.u = bah.user) /\ (got.p = bah.pass)) THEN ErrBadCredentials
    ELSE Nil

(* preTokenHandler.AuthRequest, lines 221-229 *)
PreTokenAnyValue(pth, r) ==
    getAuthToken(r.hdr, pth.tokName).err

PreTokenAuthRequest(pth, r) ==
    LET got == getAuthToken(r.hdr, pth.tokName) IN
    IF got.err # Nil THEN got.err
    ELSE IF got.ret # pth.tokValue THEN ErrUnauthorizedStr
    ELSE Nil

(* r.URL.Query()[name]: the values given for name, in their order *)
RECURSIVE QueryValues(_, _)
QueryValues(q, name) ==
    IF q = << >> THEN << >>
    ELSE (IF Head(q).name = name THEN <<Head(q).value>> ELSE << >>)
         \o QueryValues(Tail(q), name)

(* getParamToken, lines 496-501: the first non-empty key, `` without one *)
RECURSIVE FirstNonEmpty(_)
FirstNonEmpty(keys) ==
    IF keys = << >> THEN ""
    ELSE IF Head(keys) # "" THEN Head(keys)
    ELSE FirstNonEmpty(Tail(keys))

(* getParamToken, lines 485-503 *)
getParamToken(r, tokName) ==
    LET keys == QueryValues(r.query, tokName) IN
    IF tokName = "" THEN [ret |-> "", err |-> ErrEmptyTokenName]
    ELSE IF keys = << >> THEN [ret |-> "", err |-> ErrMissingParameter]
    ELSE [ret |-> FirstNonEmpty(keys), err |-> Nil]

(* preParamHandler.AuthRequest, lines 252-260 *)
PreParamAuthRequest(pth, r) ==
    LET got == getParamToken(r, pth.tokName) IN
    IF got.err # Nil THEN got.err
    ELSE IF got.ret # pth.tokValue THEN ErrUnauthorizedStr
    ELSE Nil

(* The handlers and the requests AuthRequest is tried on *)
BasicScheme == <<"B", "a", "s", "i", "c">>
BasicSchemes == {BasicScheme, basic, ToUpper(basic), <<"B", "e", "a", "r", "e", "r">>}
BasicUsers == {<<"a">>, <<"a", "b">>, <<"A">>, << >>}
BasicPasswords == {<<"x">>, <<"x", ":", "y">>, <<"x", "y">>, << >>}
BasicTexts ==
    {u \o <<":">> \o p : u \in BasicUsers, p \in BasicPasswords} \cup BasicUsers
BasicCreds ==
    [b64 : {TRUE}, text : BasicTexts] \cup {[b64 |-> FALSE, text |-> << >>]}
BasicHeaders ==
    {NoHeader} \cup [present : {TRUE}, scheme : BasicSchemes, cred : BasicCreds]
BasicHandlers ==
    {newBasicAuthHandler(u, p).hnd :
        u \in {<<"a">>, <<"a", "b">>}, p \in {<<"x">>, <<"x", ":", "y">>}}

TokenNames == {"Bearer", "X-Token"}
TokenValues == {"s3cr3t", "t0ken"}
TokenSchemes == TokenNames \cup {"bearer", "Bearers3cr3t"}
TokenCreds == TokenValues \cup {"S3cr3t", ""}
TokenHeaders ==
    {NoHeader} \cup [present : {TRUE}, scheme : TokenSchemes, cred : TokenCreds]
PreTokenHandlers ==
    {newPresharedTokenHandler(n, v).hnd : n \in TokenNames, v \in TokenValues}

ParamNames == TokenNames \cup {"other"}
ParamValues == TokenValues \cup {""}
Params == [name : ParamNames, value : ParamValues]
Queries == UNION {[1..k -> Params] : k \in 0..MaxParams}
PreParamHandlers ==
    {newPresharedParamHandler(n, v).hnd : n \in TokenNames, v \in TokenValues}

AuthCalls ==
    [hnd : BasicHandlers, req : [hdr : BasicHeaders, query : {NoQuery}]]
    \cup [hnd : PreTokenHandlers, req : [hdr : TokenHeaders, query : {NoQuery}]]
    \cup [hnd : PreParamHandlers, req : [hdr : {NoHeader}, query : Queries]]

InitAuth ==
    /\ clock = 1
    /\ CookieInit
    /\ JwtInit
    /\ ParseIdle
    /\ ValidateIdle
    /\ ConstructIdle
    /\ ServiceIdle
    /\ hpc = "idle"
    /\ \E c \in AuthCalls : hnd = c.hnd /\ hreq = c.req
    /\ herr = Nil

BasicCall ==
    /\ hpc = "idle"
    /\ hnd.kind = "basic"
    /\ herr' = BasicAuthRequest(hnd, hreq)
    /\ hpc' = "called"
    /\ UNCHANGED <<hnd, hreq, clock, cvars, jvars, pvars, vvars, nvars, wvars>>

PreTokenCall ==
    /\ hpc = "idle"
    /\ hnd.kind = "preToken"
    /\ herr' = PreTokenAuthRequest(hnd, hreq)
    /\ hpc' = "called"
    /\ UNCHANGED <<hnd, hreq, clock, cvars, jvars, pvars, vvars, nvars, wvars>>

PreParamCall ==
    /\ hpc = "idle"
    /\ hnd.kind = "preParam"
    /\ herr' = PreParamAuthRequest(hnd, hreq)
    /\ hpc' = "called"
    /\ UNCHANGED <<hnd, hreq, clock, cvars, jvars, pvars, vvars, nvars, wvars>>

AuthNext == BasicCall \/ PreTokenCall \/ PreParamCall

SpecAuth == InitAuth /\ [][AuthNext]_vars

----------------------------------------------------------------------------
(* auth.NewAuthHandler and the constructors of the handlers with state.    *)
(* lgr tells whether the logger is non-nil, randOK whether crypto/rand     *)
(* delivers.                                                                *)
ErrNilLogger == "Nil logger"
ErrUnknownAuthType == "Unknown authentication type"
ErrRandom == "Failed to generate random buffer"
ErrEmptyUsername == "empty username"
ErrEmptyPassword == "empty password"

(* newJWTAuthHandler, lines 283-295 *)
newJWTAuthHandler(user, pass, randOK) ==
    IF randOK
    THEN [hnd |-> [kind |-> "jwt", secret |-> jahSecret, user |-> user, pass |-> pass],
          err |-> Nil]
    ELSE [hnd |-> NoHandler, err |-> ErrRandom]

(* newCookieAuthHandler, lines 376-392 *)
newCookieAuthHandler(user, pass, lgr) ==
    IF user = "" THEN [hnd |-> NoHandler, err |-> ErrEmptyUsername]
    ELSE IF pass = "" THEN [hnd |-> NoHandler, err |-> ErrEmptyPassword]
    ELSE IF ~lgr THEN [hnd |-> NoHandler, err |-> ErrEmptyPassword]
    ELSE [hnd |-> [kind |-> "cookie", user |-> user, pass |-> pass, cookies |-> << >>],
          err |-> Nil]

(* auth.NewAuthHandler, lines 113-139 *)
NewAuthHandlerAlwaysURL(a, lgr, randOK) ==
    LET got == IF a.AuthType = basic THEN newBasicAuthHandler(a.Username, a.Password)
               ELSE IF a.AuthType = jwtT
               THEN newJWTAuthHandler(a.Username, a.Password, randOK)
               ELSE IF a.AuthType = cookie
               THEN newCookieAuthHandler(a.Username, a.Password, lgr)
               ELSE IF a.AuthType = preToken
               THEN newPresharedTokenHandler(a.TokenName, a.TokenValue)
               ELSE newPresharedParamHandler(a.TokenName, a.TokenValue)
    IN  IF a.AuthType \in {_none, none}
        THEN [url |-> << >>, hnd |-> NoHandler, err |-> Nil]
        ELSE [url |-> a.LoginURL, hnd |-> got.hnd, err |-> got.err]

NewAuthHandler(a, lgr, randOK) ==
    IF ~lgr THEN [url |-> << >>, hnd |-> NoHandler, err |-> ErrNilLogger]
    ELSE IF a.AuthType = _none \/ a.AuthType = none
    THEN [url |-> << >>, hnd |-> NoHandler, err |-> Nil]
    ELSE IF a.AuthType = basic
    THEN LET got == newBasicAuthHandler(a.Username, a.Password)
         IN  [url |-> << >>, hnd |-> got.hnd, err |-> got.err]
    ELSE IF a.AuthType = jwtT
    THEN LET got == newJWTAuthHandler(a.Username, a.Password, randOK)
         IN  [url |-> a.LoginURL, hnd |-> got.hnd, err |-> got.err]
    ELSE IF a.AuthType = cookie
    THEN LET got == newCookieAuthHandler(a.Username, a.Password, lgr)
         IN  [url |-> a.LoginURL, hnd |-> got.hnd, err |-> got.err]
    ELSE IF a.AuthType = preToken
    THEN LET got == newPresharedTokenHandler(a.TokenName, a.TokenValue)
         IN  [url |-> << >>, hnd |-> got.hnd, err |-> got.err]
    ELSE IF a.AuthType = preParam
    THEN LET got == newPresharedParamHandler(a.TokenName, a.TokenValue)
         IN  [url |-> << >>, hnd |-> got.hnd, err |-> got.err]
    ELSE [url |-> << >>, hnd |-> NoHandler, err |-> ErrUnknownAuthType]

(* NewAuthHandler is called on the structure Validate has been called on *)
ConstructCall(lgr, randOK) ==
    /\ vpc = "called"
    /\ LET got == NewAuthHandler(vcfg, lgr, randOK) IN
       vnew' = [lgr |-> lgr, randOK |-> randOK,
                url |-> got.url, hnd |-> got.hnd, err |-> got.err]
    /\ vpc' = "built"
    /\ UNCHANGED <<vcfg, vout, clock, cvars, jvars, pvars, hvars, wvars>>

ConstructNext ==
    \/ ValidateCall
    \/ \E lgr \in BOOLEAN, randOK \in BOOLEAN : ConstructCall(lgr, randOK)

SpecConstruct == InitValidate /\ [][ConstructNext]_vars

----------------------------------------------------------------------------
(* The Login handlers of cookieAuthHandler and jwtAuthHandler, called      *)
(* concurrently.                                                            *)
LoginNext ==
    \/ Tick
    \/ \E p \in Procs, formOK \in BOOLEAN, u \in Users, pw \in Passwords,
          randOK \in BOOLEAN : LoginBegin(p, formOK, u, pw, randOK)
    \/ \E p \in Procs : LoginLock(p)
    \/ \E p \in Procs : LoginInsert(p)
    \/ \E p \in Procs : LoginSweep(p)
    \/ \E p \in Procs : LoginUnlock(p)
    \/ \E p \in Procs : LoginSetCookie(p)
    \/ \E p \in Procs : Return(p)
    \/ \E formOK \in BOOLEAN, u \in Users, pw \in Passwords : JwtLogin(formOK, u, pw)

SpecLogin == Init /\ [][LoginNext]_vars

----------------------------------------------------------------------------
(* winfilefollow: mainService.Execute and the goroutine it starts,         *)
(* mainService.consumerRoutine.  consumerErr is a channel with a buffer of *)
(* one error: a send needs room in the buffer, a receive needs a value in  *)
(* it.  The service manager takes every status sent on changes and offers  *)
(* change requests on r; the watchers init has started queue entries on    *)
(* m.entCh, which nothing in these sources closes.                          *)
MaxEntries == 2
consumerErrSize == 1

Interrogate == "Interrogate"
Stop == "Stop"
Shutdown == "Shutdown"
Pause == "Pause"
Cmds == {Interrogate, Stop, Shutdown, Pause}
ErrInit == "init error"
ErrWriteEntry == "WriteEntry error"

(* ch <- v on a buffered channel *)
CanSend(ch) == Len(ch) < consumerErrSize

(* Execute, lines 109-110: the two statuses sent before the loop *)
ExecStart ==
    /\ epc = "start"
    /\ changes' = "StartPending"
    /\ epc' = "running"
    /\ UNCHANGED <<kpc, consumerErr, rChan, entCh, igst,
                   clock, cvars, jvars, pvars, vvars, hvars, nvars>>

(* Execute, lines 110-112: Running, make(chan error, 1), go consumerRoutine *)
ExecGo ==
    /\ epc = "running"
    /\ changes' = "Running"
    /\ consumerErr' = << >>
    /\ kpc' = "init"
    /\ epc' = "select"
    /\ UNCHANGED <<rChan, entCh, igst,
                   clock, cvars, jvars, pvars, vvars, hvars, nvars>>

(* Execute, lines 116-127: case c := <-r *)
ExecRequest ==
    /\ epc = "select"
    /\ rChan # << >>
    /\ rChan' = << >>
    /\ LET c == Head(rChan) IN
       epc' = IF c = Interrogate THEN "interrogate1"
              ELSE IF c = Stop \/ c = Shutdown THEN "stopPending"
              ELSE "select"
    /\ UNCHANGED <<kpc, consumerErr, changes, entCh, igst,
                   clock, cvars, jvars, pvars, vvars, hvars, nvars>>

(* Execute, lines 121-122: changes <- c.CurrentStatus, twice *)
ExecInterrogate ==
    /\ epc \in {"interrogate1", "interrogate2"}
    /\ epc' = IF epc = "interrogate1" THEN "interrogate2" ELSE "select"
    /\ UNCHANGED <<kpc, consumerErr, rChan, changes, entCh, igst,
                   clock, cvars, jvars, pvars, vvars, hvars, nvars>>

(* Execute, lines 128-130: case err := <-consumerErr *)
ExecConsumerErr ==
    /\ epc = "select"
    /\ consumerErr # << >>
    /\ consumerErr' = Tail(consumerErr)
    /\ epc' = "stopPending"
    /\ UNCHANGED <<kpc, rChan, changes, entCh, igst,
                   clock, cvars, jvars, pvars, vvars, hvars, nvars>>

(* Execute, line 133: changes <- svc.Status{State: svc.StopPending} *)
ExecStopPending ==
    /\ epc = "stopPending"
    /\ changes' = "StopPending"
    /\ epc' = "sendNil"
    /\ UNCHANGED <<kpc, consumerErr, rChan, entCh, igst,
                   clock, cvars, jvars, pvars, vvars, hvars, nvars>>

(* Execute, lines 134-135: consumerErr <- nil and return *)
ExecSendNil ==
    /\ epc = "sendNil"
    /\ CanSend(consumerErr)
    /\ consumerErr' = Append(consumerErr, Nil)
    /\ epc' = "returned"
    /\ UNCHANGED <<kpc, rChan, changes, entCh, igst,
                   clock, cvars, jvars, pvars, vvars, hvars, nvars>>

(* consumerRoutine, line 139: m.init() *)
ConsInit(ok) ==
    /\ kpc = "init"
    /\ igst' = ok
    /\ kpc' = IF ok THEN "loop" ELSE "sendInitErr"
    /\ UNCHANGED <<epc, consumerErr, rChan, changes, entCh,
                   clock, cvars, jvars, pvars, vvars, hvars, nvars>>

(* consumerRoutine, lines 140-143: errC <- err, and on into the loop *)
ConsSendInitErr ==
    /\ kpc = "sendInitErr"
    /\ CanSend(consumerErr)
    /\ consumerErr' = Append(consumerErr, ErrInit)
    /\ kpc' = "loop"
    /\ UNCHANGED <<epc, rChan, changes, entCh, igst,
                   clock, cvars, jvars, pvars, vvars, hvars, nvars>>

(* consumerRoutine, line 147: case evt, ok := <-m.entCh *)
ConsEntry ==
    /\ kpc = "loop"
    /\ entCh > 0
    /\ entCh' = entCh - 1
    /\ kpc' = "write"
    /\ UNCHANGED <<epc, consumerErr, rChan, changes, igst,
                   clock, cvars, jvars, pvars, vvars, hvars, nvars>>

(* consumerRoutine, line 151: m.igst.WriteEntry(evt) *)
ConsWriteEntry(ok) ==
    /\ kpc = "write"
    /\ kpc' = IF ok THEN "loop" ELSE "sendWriteErr"
    /\ UNCHANGED <<epc, consumerErr, rChan, changes, entCh, igst,
                   clock, cvars, jvars, pvars, vvars, hvars, nvars>>

(* consumerRoutine, lines 152-153: errC <- err and return *)
ConsSendWriteErr ==
    /\ kpc = "sendWriteErr"
    /\ CanSend(consumerErr)
    /\ consumerErr' = Append(consumerErr, ErrWriteEntry)
    /\ kpc' = "returned"
    /\ UNCHANGED <<epc, rChan, changes, entCh, igst,
                   clock, cvars, jvars, pvars, vvars, hvars, nvars>>

(* consumerRoutine, lines 155-156: case <-errC *)
ConsErrC ==
    /\ kpc = "loop"
    /\ consumerErr # << >>
    /\ consumerErr' = Tail(consumerErr)
    /\ kpc' = "sendNil"
    /\ UNCHANGED <<epc, rChan, changes, entCh, igst,
                   clock, cvars, jvars, pvars, vvars, hvars, nvars>>

(* consumerRoutine, lines 159-160: errC <- nil and return *)
ConsSendNil ==
    /\ kpc = "sendNil"
    /\ CanSend(consumerErr)
    /\ consumerErr' = Append(consumerErr, Nil)
    /\ kpc' = "returned"
    /\ UNCHANGED <<epc, rChan, changes, entCh, igst,
                   clock, cvars, jvars, pvars, vvars, hvars, nvars>>

(* The service manager offers a change request on r *)
Control(c) ==
    /\ epc \notin {"start", "returned"}
    /\ rChan = << >>
    /\ rChan' = <<c>>
    /\ UNCHANGED <<epc, kpc, consumerErr, changes, entCh, igst,
                   clock, cvars, jvars, pvars, vvars, hvars, nvars>>

(* A log handler init has created queues an entry on m.entCh *)
Watch ==
    /\ igst
    /\ entCh < MaxEntries
    /\ entCh' = entCh + 1
    /\ UNCHANGED <<epc, kpc, consumerErr, rChan, changes, igst,
                   clock, cvars, jvars, pvars, vvars, hvars, nvars>>

ExecuteStep ==
    \/ ExecStart
    \/ ExecGo
    \/ ExecRequest
    \/ ExecInterrogate
    \/ ExecConsumerErr
    \/ ExecStopPending
    \/ ExecSendNil

ConsumerStep ==
    \/ \E ok \in BOOLEAN : ConsInit(ok)
    \/ ConsSendInitErr
    \/ ConsEntry
    \/ \E ok \in BOOLEAN : ConsWriteEntry(ok)
    \/ ConsSendWriteErr
    \/ ConsErrC
    \/ ConsSendNil

ServiceNext ==
    \/ ExecuteStep
    \/ ConsumerStep
    \/ \E c \in Cmds : Control(c)
    \/ Watch

(* Scheduling: each goroutine that can run does, and a select takes each   *)
(* of its cases that is ready again and again.                             *)
ServiceFairness ==
    /\ SF_vars(ExecStart) /\ SF_vars(ExecGo) /\ SF_vars(ExecRequest)
    /\ SF_vars(ExecInterrogate) /\ SF_vars(ExecConsumerErr)
    /\ SF_vars(ExecStopPending) /\ SF_vars(ExecSendNil)
    /\ SF_vars(\E ok \in BOOLEAN : ConsInit(ok)) /\ SF_vars(ConsSendInitErr)
    /\ SF_vars(ConsEntry) /\ SF_vars(\E ok \in BOOLEAN : ConsWriteEntry(ok))
    /\ SF_vars(ConsSendWriteErr) /\ SF_vars(ConsErrC) /\ SF_vars(ConsSendNil)

SpecService == Init /\ [][ServiceNext]_vars /\ ServiceFairness

----------------------------------------------------------------------------
(* Steps of the callers, as seen from outside *)
AuthChecked(p) == pc[p] = "aCheck" /\ pc'[p] = "aUnlock"
LoginStarted(p) == pc[p] = "idle" /\ pc'[p] = "lLock"

(* C1: an AuthRequest that carries a non-empty session cookie fails with    *)
(* Unauthorized and changes nothing when the identifier is not in the       *)
(* store; deletes exactly that entry and fails with Session expired when    *)
(* the identifier is in the store and the time it read is after the         *)
(* entry's expiry; and returns nil, changing nothing, otherwise.            *)
C1_AuthRequestOutcome ==
    [][\A p \in Procs : AuthChecked(p) =>
         LET id == loc[p].cookie
             n == loc[p].n
         IN  /\ id # EmptyValue
             /\ id \notin DOMAIN cookies =>
                   /\ loc'[p].err = ErrUnauthorizedStr
                   /\ cookies' = cookies
             /\ (id \in DOMAIN cookies /\ n > cookies[id]) =>
                   /\ loc'[p].err = ErrSessionExpired
                   /\ DOMAIN cookies' = DOMAIN cookies \ {id}
                   /\ \A k \in DOMAIN cookies' : cookies'[k] = cookies[k]
             /\ (id \in DOMAIN cookies /\ n <= cookies[id]) =>
                   /\ loc'[p].err = Nil
                   /\ cookies' = cookies]_vars

C1_Witness ==
    \E p \in Procs :
        /\ pc[p] = "aUnlock"
        /\ loc[p].err = ErrSessionExpired
        /\ loc[p].ok
        /\ loc[p].n > loc[p].expires
        /\ loc[p].cookie \notin DOMAIN cookies

(* C2: once an AuthRequest has failed with Session expired for an           *)
(* identifier, every AuthRequest that checks that identifier afterwards     *)
(* fails with Unauthorized, so that at most one AuthRequest ever reports    *)
(* Session expired for it.                                                  *)
C2_ExpiredOnce ==
    [][\A p \in Procs :
         (AuthChecked(p) /\ loc[p].cookie \in expiredRet) =>
             /\ loc'[p].err = ErrUnauthorizedStr
             /\ expiredRet' = expiredRet]_vars

C2_Witness ==
    \E p \in Procs :
        /\ pc[p] = "aUnlock"
        /\ loc[p].cookie \in expiredRet
        /\ loc[p].err = ErrUnauthorizedStr

(* C3: the Logins that reached SetCookie handed out pairwise distinct       *)
(* identifiers; each of them that has not expired is in the store with      *)
(* the expiry handed out, and an AuthRequest that has just checked it       *)
(* accepted it; the map is only touched by the caller holding the lock.     *)
C3_NoLostInsert ==
    /\ Cardinality(DOMAIN jar) = okLogins
    /\ \A id \in DOMAIN jar :
          clock <= jar[id] => (id \in DOMAIN cookies /\ cookies[id] = jar[id])
    /\ \A p \in Procs :
          (/\ pc[p] = "aUnlock"
           /\ loc[p].cookie \in DOMAIN jar
           /\ clock <= jar[loc[p].cookie]) => loc[p].err = Nil
    /\ \A p \in Procs :
          pc[p] \in {"lInsert", "lSweep", "lUnlock", "aLookup", "aCheck", "aUnlock"}
              => mutex = p

C3_Witness ==
    /\ okLogins = 2
    /\ Cardinality(DOMAIN jar) = 2
    /\ \A id \in DOMAIN jar : clock <= jar[id] /\ id \in DOMAIN cookies
    /\ \E p \in Procs :
          /\ pc[p] = "aUnlock"
          /\ loc[p].cookie \in DOMAIN jar
          /\ loc[p].err = Nil

(* C4, as stated: a session created by a Login at clock value t0 expires   *)
(* at t0 + jwtDuration, and an AuthRequest that presents it and reads       *)
(* clock value t is accepted when t <= expiresAt and rejected when          *)
(* t > expiresAt, whatever else has run.                                    *)
C4_AsStated ==
    [][/\ \A p \in Procs :
            LoginStarted(p) => loc'[p].expires = clock + jwtDuration
       /\ \A p \in Procs :
            (AuthChecked(p) /\ loc[p].fromJar) =>
                LET expiresAt == jar[loc[p].cookie]
                    t == loc[p].n
                IN  /\ t <= expiresAt => loc'[p].err = Nil
                    /\ t > expiresAt => loc'[p].err # Nil]_vars

(* C4, amended: a session created by a Login at clock value t0 expires at   *)
(* t0 + jwtDuration; an AuthRequest that presents it and read clock value   *)
(* t is rejected when t > expiresAt, and accepted when t <= expiresAt and   *)
(* the clock has still not passed expiresAt when it looks the session up;   *)
(* when the clock passes expiresAt between its reading of the time and      *)
(* its lookup, it is accepted if the entry is still in the store and        *)
(* fails with Unauthorized if another AuthRequest or a Login's sweep has    *)
(* removed it.                                                              *)
C4_SessionWindow ==
    [][/\ \A p \in Procs :
            LoginStarted(p) => loc'[p].expires = clock + jwtDuration
       /\ \A p \in Procs :
            (pc[p] = "lSetCookie" /\ pc'[p] = "lDone") =>
                jar'[loc[p].cookie] = loc[p].expires
       /\ \A p \in Procs :
            (AuthChecked(p) /\ loc[p].fromJar) =>
                LET id == loc[p].cookie
                    expiresAt == jar[id]
                    t == loc[p].n
                IN  /\ t > expiresAt => loc'[p].err # Nil
                    /\ (t <= expiresAt /\ clock <= expiresAt) => loc'[p].err = Nil
                    /\ (t <= expiresAt /\ clock > expiresAt) =>
                          IF id \in DOMAIN cookies
                          THEN loc'[p].err = Nil
                          ELSE loc'[p].err = ErrUnauthorizedStr]_vars

C4_Witness ==
    \E p, q \in Procs :
        /\ pc[p] = "aUnlock"
        /\ loc[p].fromJar
        /\ loc[p].n = jar[loc[p].cookie]
        /\ clock = loc[p].n
        /\ loc[p].err = Nil
        /\ pc[q] = "aDone"
        /\ loc[q].cookie \in DOMAIN jar
        /\ clock > jar[loc[q].cookie]
        /\ loc[q].err = ErrSessionExpired

----------------------------------------------------------------------------
(* The handlers without state: the claims *)

(* C11, as stated: preParamHandler.AuthRequest fails with the missing       *)
(* parameter error when the query holds no occurrence of the configured     *)
(* parameter or only empty ones; otherwise it judges the first non-empty    *)
(* occurrence, returning nil when it equals the configured token value and  *)
(* Unauthorized when it differs.                                            *)
C11_ParamAsStated ==
    (hpc = "called" /\ hnd.kind = "preParam") =>
        LET keys == QueryValues(hreq.query, hnd.tokName)
            filled == {i \in 1..Len(keys) : keys[i] # ""}
            first == keys[CHOOSE i \in filled : \A j \in filled : i <= j]
        IN  /\ filled = {} => herr = ErrMissingParameter
            /\ (filled # {} /\ first = hnd.tokValue) => herr = Nil
            /\ (filled # {} /\ first # hnd.tokValue) => herr = ErrUnauthorizedStr

(* C13: preTokenHandler.AuthRequest fails with a missing authentication     *)
(* error (no Authorization header value, or a token name that is not the    *)
(* configured one) when the header is absent or does not start with the     *)
(* configured token name and a space, fails with Unauthorized when the      *)
(* value after that prefix differs from the configured token value, and     *)
(* returns nil exactly when it equals the configured token value.           *)
C13_PreToken ==
    (hpc = "called" /\ hnd.kind = "preToken") =>
        LET h == hreq.hdr
            prefixed == h.present /\ h.scheme = hnd.tokName
        IN  /\ ~h.present => herr = ErrMissingHeader
            /\ (h.present /\ ~prefixed) => herr = ErrInvalidTokenName
            /\ (prefixed /\ h.cred # hnd.tokValue) => herr = ErrUnauthorizedStr
            /\ herr = Nil <=> (prefixed /\ h.cred = hnd.tokValue)

C13_Witness ==
    /\ hpc = "called"
    /\ hnd.kind = "preToken"
    /\ hreq.hdr.present
    /\ hreq.hdr.scheme = hnd.tokName
    /\ hreq.hdr.cred = "S3cr3t"
    /\ hnd.tokValue = "s3cr3t"
    /\ herr = ErrUnauthorizedStr

(* C14: basicAuthHandler.AuthRequest returns nil exactly when the request   *)
(* carries basic-auth credentials whose username and password both equal    *)
(* the configured ones, fails with Missing authentication when it carries   *)
(* no basic-auth credentials, and with Bad username or password for every   *)
(* other username and password.                                             *)
C14_Basic ==
    (hpc = "called" /\ hnd.kind = "basic") =>
        LET got == BasicAuth(hreq.hdr)
            equal == got.u = hnd.user /\ got.p = hnd.pass
        IN  /\ herr = Nil <=> (got.ok /\ equal)
            /\ ~got.ok => herr = ErrMissingAuthentication
            /\ (got.ok /\ ~equal) => herr = ErrBadCredentials

C14_Witness ==
    /\ hpc = "called"
    /\ hnd.kind = "basic"
    /\ BasicAuth(hreq.hdr).ok
    /\ BasicAuth(hreq.hdr).u = hnd.user
    /\ hnd.pass = <<"x">>
    /\ BasicAuth(hreq.hdr).p = <<"x", "y">>
    /\ herr = ErrBadCredentials

----------------------------------------------------------------------------
(* auth.NewAuthHandler: the claim *)

(* C20: when Validate has returned enabled and no error, NewAuthHandler on  *)
(* the validated structure, with a logger and a working entropy source,     *)
(* returns a handler and no error, and a non-empty login URL exactly when   *)
(* the type is jwt or cookie; for the disabled type it returns no handler,  *)
(* an empty login URL and no error.                                         *)
C20_Construct ==
    (vpc = "built" /\ vnew.lgr /\ vnew.randOK) =>
        /\ (vout.enabled /\ vout.err = Nil) =>
              /\ vnew.hnd # NoHandler
              /\ vnew.err = Nil
              /\ vnew.url # << >> <=> vcfg.AuthType \in {jwtT, cookie}
        /\ vcfg.AuthType \in {none, _none} =>
              /\ vnew.hnd = NoHandler
              /\ vnew.url = << >>
              /\ vnew.err = Nil

C20_Witness ==
    /\ vpc = "built"
    /\ vnew.lgr /\ vnew.randOK
    /\ vout.enabled /\ vout.err = Nil
    /\ vcfg.AuthType = basic
    /\ vcfg.LoginURL # << >>
    /\ vnew.hnd = [kind |-> "basic", user |-> "admin", pass |-> "hunter2"]
    /\ vnew.url = << >>

----------------------------------------------------------------------------
(* Login: the claims *)

(* C12: a Login of cookieAuthHandler or of jwtAuthHandler whose form        *)
(* parses and whose username or password differs from the configured one    *)
(* responds 403 Forbidden and returns at once: it draws no identifier,      *)
(* takes no lock, inserts nothing into the store and sweeps nothing out of  *)
(* it, sets no cookie and writes no token.                                  *)
C12_FailedLogin ==
    [][/\ \A p \in Procs, u \in Users, pw \in Passwords, randOK \in BOOLEAN :
            (LoginBegin(p, TRUE, u, pw, randOK) /\ (u # cahUser \/ pw # cahPass)) =>
                /\ loc'[p].status = StatusForbidden
                /\ loc'[p].cookie = EmptyValue
                /\ pc'[p] = "lDone"
                /\ cookies' = cookies
                /\ issued' = issued
                /\ jar' = jar
                /\ mutex' = mutex
       /\ \A p \in Procs :
            (pc[p] = "lDone" /\ loc[p].status = StatusForbidden) =>
                /\ pc'[p] \in {"lDone", "idle"}
                /\ loc[p].cookie \notin DOMAIN jar'
                /\ loc[p].cookie \notin DOMAIN cookies'
       /\ \A u \in Users, pw \in Passwords :
            (JwtLogin(TRUE, u, pw) /\ (u # jahUser \/ pw # jahPass)) =>
                /\ jresp'.status = StatusForbidden
                /\ jresp'.body = Malformed
                /\ cookies' = cookies]_vars

C12_Witness ==
    /\ \E p \in Procs :
          /\ pc[p] = "lDone"
          /\ loc[p].status = StatusForbidden
    /\ DOMAIN cookies # {}
    /\ \E id \in DOMAIN cookies : clock > cookies[id]
    /\ jresp.status = StatusForbidden

----------------------------------------------------------------------------
(* cookieAuthHandler: the session store *)
LoginSwept(p) == pc[p] = "lSweep" /\ pc'[p] = "lUnlock"
LoginInserted(p) == pc[p] = "lInsert" /\ pc'[p] = "lSweep"
Locked == {"lInsert", "lSweep", "lUnlock", "aLookup", "aCheck", "aUnlock"}

(* C15, as stated: when the sweep of a Login is done, and until that Login  *)
(* releases the lock, the store holds the session the Login inserted and    *)
(* no entry whose expiry is earlier than the clock value the sweep used.    *)
C15_AsStated ==
    [][\A p \in Procs :
         /\ LoginSwept(p) =>
               /\ loc[p].cookie \in DOMAIN cookies'
               /\ \A k \in DOMAIN cookies' : cookies'[k] >= clock
         /\ pc[p] = "lUnlock" => cookies' = cookies]_vars

(* C15, amended: when the sweep of a Login is done, and until that Login    *)
(* releases the lock, the store holds exactly the entries it held before    *)
(* the sweep whose expiry is not earlier than the clock value the sweep     *)
(* used, with their expiry; the session the Login inserted is among them    *)
(* unless that clock value is already past its own expiry, which is         *)
(* jwtDuration after the Login read the time, and then the sweep removes    *)
(* it like any other.                                                       *)
C15_SweepPost ==
    [][\A p \in Procs :
         /\ LoginSwept(p) =>
               /\ DOMAIN cookies' = {k \in DOMAIN cookies : cookies[k] >= clock}
               /\ \A k \in DOMAIN cookies' : cookies'[k] = cookies[k]
               /\ loc[p].cookie \in DOMAIN cookies
               /\ loc[p].cookie \in DOMAIN cookies' <=> clock <= loc[p].expires
         /\ pc[p] = "lUnlock" => cookies' = cookies]_vars

C15_Witness ==
    \E p \in Procs :
        /\ pc[p] = "lUnlock"
        /\ loc[p].cookie \in DOMAIN cookies
        /\ \E id \in DOMAIN jar :
              /\ id \notin DOMAIN cookies
              /\ id \notin expiredRet
              /\ jar[id] < clock

(* C16: an entry of the store keeps its expiry as long as it is there; it   *)
(* leaves the store only once the clock is past its expiry, and only by an  *)
(* AuthRequest checking that identifier or by the sweep of a Login; an      *)
(* AuthRequest leaves all other entries alone; and entries only come from   *)
(* the insert of a Login.                                                   *)
C16_DeletionOnly ==
    [][/\ \A id \in DOMAIN cookies :
            /\ id \in DOMAIN cookies' => cookies'[id] = cookies[id]
            /\ id \notin DOMAIN cookies' =>
                  /\ clock > cookies[id]
                  /\ \/ \E p \in Procs : AuthChecked(p) /\ loc[p].cookie = id
                     \/ \E p \in Procs : LoginSwept(p)
       /\ \A p \in Procs :
            AuthChecked(p) => DOMAIN cookies \ {loc[p].cookie} \subseteq DOMAIN cookies'
       /\ DOMAIN cookies' \ DOMAIN cookies # {} =>
            \E p \in Procs : LoginInserted(p)]_vars

C16_Witness ==
    /\ expiredRet # {}
    /\ \E id \in DOMAIN cookies : clock > cookies[id]
    /\ \A p \in Procs : pc[p] = "idle"

(* C17: the caller that holds the mutex is between Lock and Unlock, at the  *)
(* insert, the sweep, the lookup or the expiry check with its delete; a     *)
(* caller that parses the form, compares credentials, draws an identifier,  *)
(* writes the status or the cookie, or returns does not hold it.            *)
C17_LockScope ==
    /\ mutex \in Procs \cup {Free}
    /\ \A p \in Procs : mutex = p => pc[p] \in Locked
    /\ \A p \in Procs :
          pc[p] \in {"idle", "lLock", "lSetCookie", "lDone", "aLock", "aDone"}
              => mutex # p

C17_Witness ==
    \E p, q \in Procs :
        /\ mutex = p
        /\ pc[p] = "lSweep"
        /\ pc[q] = "lSetCookie"

(* C19: an AuthRequest returns nil only for an identifier that randBase64   *)
(* drew in a Login that presented the configured username and password,     *)
(* that this Login inserted with its expiry, and whose expiry is not        *)
(* earlier than the time the AuthRequest read; no other Login draws or      *)
(* inserts an identifier.                                                   *)
C19_OnlyIssued ==
    [][/\ \A p \in Procs :
            (AuthChecked(p) /\ loc'[p].err = Nil) =>
                /\ loc[p].cookie \in issued
                /\ loc[p].cookie \in DOMAIN cookies
                /\ loc[p].n <= cookies[loc[p].cookie]
       /\ issued' # issued =>
            \E p \in Procs : LoginBegin(p, TRUE, cahUser, cahPass, TRUE)
       /\ \A id \in DOMAIN cookies' \ DOMAIN cookies :
            \E p \in Procs :
                /\ LoginInserted(p)
                /\ loc[p].cookie = id
                /\ id \in issued
                /\ cookies'[id] = loc[p].expires
       /\ \A p \in Procs :
            (pc'[p] = "aDone" /\ loc'[p].err = Nil) => loc'[p].cookie \in issued']_vars

C19_Witness ==
    \E p, q \in Procs :
        /\ pc[p] = "aUnlock"
        /\ loc[p].err = Nil
        /\ loc[p].cookie \in issued
        /\ pc[q] = "aDone"
        /\ loc[q].cookie # EmptyValue
        /\ loc[q].cookie \notin issued
        /\ loc[q].err = ErrUnauthorizedStr

(* C18: under fair scheduling every Login and every AuthRequest that has    *)
(* started returns, whatever the other callers do, and the mutex, once      *)
(* taken, is released again.                                                *)
C18_Completes ==
    /\ \A p \in Procs :
          (pc[p] \notin {"idle", "lDone", "aDone"}) ~> (pc[p] \in {"lDone", "aDone"})
    /\ (mutex # Free) ~> (mutex = Free)

C18_Witness ==
    \E p, q \in Procs :
        /\ pc[p] = "aLock"
        /\ pc[q] = "lSweep"
        /\ mutex = q

----------------------------------------------------------------------------
(* winfilefollow: the claim *)

(* C21, as stated: once Execute has left its loop, on a Stop or Shutdown    *)
(* request or on an error from the consumer, it eventually returns, its     *)
(* last send on consumerErr never blocking for ever, and the consumer       *)
(* goroutine eventually returns too.                                        *)
C21_AsStated ==
    /\ (epc = "stopPending") ~> (epc = "returned")
    /\ (epc = "stopPending") ~> (kpc = "returned")

====
